---- MODULE Spec2Model ----
(***************************************************************************)
(* OBS Source Search plugin: the source index (SourceItem,                 *)
(* SourceCollection) and the dock that drives it (SourceSearchDock).       *)
(*                                                                         *)
(* std::string values are sequences of bytes (UTF-8), so that tolower,     *)
(* substring search and operator< are modelled byte by byte.  A uuid is    *)
(* only ever compared for equality and is a TLA+ string.                   *)
(***************************************************************************)
EXTENDS Integers, Sequences, FiniteSets, TLC

(***************************************************************************)
(* Bounds of the model.                                                    *)
(***************************************************************************)
\* longest top-level enumeration obs_enum_all_sources reports
MaxTop == 3
\* host mutations (destroy, rename, create) in one behaviour
MaxMutations == 1

(***************************************************************************)
(* Byte strings.                                                           *)
(***************************************************************************)
sEmpty == <<>>
sMain == <<77, 97, 105, 110>>            \* "Main"
sGrp == <<71, 114, 112>>                 \* "Grp"
sCam == <<67, 97, 109>>                  \* "Cam"
sCamLower == <<99, 97, 109>>             \* "cam"
sCamUpper == <<67, 65, 77>>              \* "CAM"
sEAcuteUpper == <<195, 137>>             \* "É" (UTF-8: C3 89)
sEAcuteLower == <<195, 169>>             \* "é" (UTF-8: C3 A9)
sBlur == <<66, 108, 117, 114>>           \* "Blur"
sImage == <<105, 109, 97, 103, 101>>     \* "image"
sMainLower == <<109, 97, 105, 110>>      \* "main"
sAll == <<97, 108, 108>>                 \* "all"
sSources == <<115, 111, 117, 114, 99, 101, 115>>   \* "sources"
sFilters == <<102, 105, 108, 116, 101, 114, 115>>  \* "filters"
sHPrefix == <<40, 72, 41, 32>>           \* "(H) "
sVPrefix == <<40, 86, 41, 32>>           \* "(V) "
sStinger == <<40, 83, 116, 105, 110, 103, 101, 114, 41>>   \* "(Stinger)"
idScene == <<115, 99, 101, 110, 101>>    \* "scene"
idGroup == <<103, 114, 111, 117, 112>>   \* "group"
idImage == <<105, 109, 97, 103, 101, 95, 115, 111, 117, 114, 99, 101>>   \* "image_source"
idFilter == <<99, 111, 108, 111, 114, 95, 102, 105, 108, 116, 101, 114>> \* "color_filter"
idAudioMonitor == <<97, 117, 100, 105, 111, 95, 109, 111, 110, 105, 116, 111, 114>> \* "audio_monitor"
idAudioLine == <<97, 117, 100, 105, 111, 95, 108, 105, 110, 101>>        \* "audio_line"
sWrapper == <<95, 119, 114, 97, 112, 112, 101, 114, 95>>                 \* "_wrapper_"
idFade == <<102, 97, 100, 101, 95, 116, 114, 97, 110, 115, 105, 116, 105, 111, 110>>   \* "fade_transition"
idWrapped == <<118, 115, 116, 95, 119, 114, 97, 112, 112, 101, 114, 95, 105, 110>>   \* "vst_wrapper_in"
sFade == <<70, 97, 100, 101>>                \* "Fade"
sMon == <<77, 111, 110>>                     \* "Mon"
sWrap == <<87, 114, 97, 112>>               \* "Wrap"
sLine == <<76, 105, 110, 101>>               \* "Line"
sFMon == <<70, 77, 111, 110>>               \* "FMon"
sFx == <<70, 120>>                          \* "Fx"
idExt == <<101, 120, 116, 95, 115, 111, 117, 114, 99, 101>>   \* "ext_source"
sExt == <<69, 120, 116>>                     \* "Ext"
sVert == <<86, 101, 114, 116>>              \* "Vert"
dnScene == <<83, 99, 101, 110, 101>>     \* "Scene"
dnGroup == <<71, 114, 111, 117, 112>>    \* "Group"
dnImage == <<73, 109, 97, 103, 101>>     \* "Image"
dnFilter == <<67, 111, 108, 111, 114, 32, 67, 111, 114, 114, 101, 99, 116, 105, 111, 110>> \* "Color Correction"

\* std::string operator<: lexicographic on unsigned bytes, a proper prefix first
StrLess(a, b) ==
    \E i \in 1..(Len(b)) :
        /\ \A j \in 1..(i - 1) : j <= Len(a) /\ a[j] = b[j]
        /\ Len(a) >= i - 1
        /\ (Len(a) = i - 1 \/ a[i] < b[i])

\* strstr(h, n) != nullptr: n occurs in h, bytes compared as they are
StrStr(h, n) ==
    \E i \in 0..(Len(h) - Len(n)) : \A j \in 1..Len(n) : h[i + j] = n[j]

\* std::tolower(unsigned char) in the "C" and the UTF-8 locales: A-Z only
ToLower(c) == IF c \in 65..90 THEN c + 32 ELSE c

\* ContainsCaseInsensitive with its tolower replaced by the identity
ContainsCaseSensitive(haystack, needle) ==
    IF needle = sEmpty THEN TRUE
    ELSE IF haystack = sEmpty THEN FALSE
    ELSE StrStr(haystack, needle)

ContainsCaseInsensitive(haystack, needle) ==
    IF needle = sEmpty THEN TRUE
    ELSE IF haystack = sEmpty THEN FALSE
    ELSE \E i \in 0..(Len(haystack) - Len(needle)) :
            \A j \in 1..Len(needle) : ToLower(haystack[i + j]) = ToLower(needle[j])

(***************************************************************************)
(* The host (libobs) side: the objects the plugin can be told about.  An   *)
(* object's type and type id never change; its name, its existence and the *)
(* lists it is reported in do.                                             *)
(***************************************************************************)
Objs == {"u-main", "u-grp", "u-cam", "u-blur"}

\* further objects obs_enum_all_sources reports: a second scene, a source of
\* a plugin that is not loaded, two more filters, and the host-internal ones: a transition, an audio monitor, a
\* wrapped source and an audio line
OddObjs ==
    {"u-vert", "u-ext", "u-fade", "u-mon", "u-wrap", "u-line", "u-fmon", "u-fx"}
AllObjs == Objs \cup OddObjs

\* obs_source_get_type / obs_source_is_scene / obs_source_is_group
Kind(o) ==
    CASE o = "u-main" -> "scene"
      [] o = "u-grp" -> "group"
      [] o = "u-cam" -> "input"
      [] o = "u-blur" -> "filter"
      [] o = "u-vert" -> "scene"
      [] o = "u-fade" -> "transition"
      [] o \in {"u-ext", "u-mon", "u-wrap", "u-line"} -> "input"
      [] o \in {"u-fmon", "u-fx"} -> "filter"

\* obs_source_get_id
TypeIdOf(o) ==
    CASE o = "u-main" -> idScene
      [] o = "u-grp" -> idGroup
      [] o = "u-cam" -> idImage
      [] o = "u-blur" -> idFilter
      [] o = "u-vert" -> idScene
      [] o = "u-ext" -> idExt
      [] o = "u-fade" -> idFade
      [] o = "u-mon" -> idAudioMonitor
      [] o = "u-wrap" -> idWrapped
      [] o = "u-line" -> idAudioLine
      [] o = "u-fmon" -> idAudioMonitor
      [] o = "u-fx" -> idFilter

\* the names an object can carry (obs_source_get_name; "" stands for none)
NamesOf(o) ==
    CASE o = "u-main" -> {sMain}
      [] o = "u-grp" -> {sGrp}
      [] o = "u-cam" -> {sCam, sCamLower, sEAcuteUpper, sBlur}
      [] o = "u-blur" -> {sBlur}
      [] o = "u-vert" -> {sVert}
      [] o = "u-ext" -> {sExt}
      [] o = "u-fade" -> {sFade}
      [] o = "u-mon" -> {sMon}
      [] o = "u-wrap" -> {sWrap}
      [] o = "u-line" -> {sLine}
      [] o = "u-fmon" -> {sFMon}
      [] o = "u-fx" -> {sFx}

FilterObjs == {o \in Objs : Kind(o) = "filter"}
SceneObjs == {o \in Objs : Kind(o) \in {"scene", "group"}}

VARIABLES
    objState,          \* host: each object "unborn", "live" or "gone"
    objName,           \* host: obs_source_get_name of each object
    topLevel,          \* host: what obs_enum_all_sources reports, in order
    filtersOf,         \* host: what obs_source_enum_filters reports per object
    sceneItems,        \* host: the sources of the items obs_scene_enum_items reports
    mainScenes,        \* host: obs_frontend_get_scenes
    mutations,         \* host: mutations so far (bounds the behaviour)
    sources,           \* SourceCollection::sources
    sourcesByUUID,     \* SourceCollection::sourcesByUUID (uuid -> position in sources)
    discoveredTypes,   \* SourceCollection::discoveredTypes (typeId -> displayName)
    initialized,       \* SourceSearchDock::initialized
    signalsConnected,  \* SourceSearchDock::signalsConnected
    visible,           \* the dock widget is shown
    currentSearchText, \* SourceSearchDock::currentSearchText
    currentSearchScope,\* SourceSearchDock::currentSearchScope
    currentTypeFilter, \* SourceSearchDock::currentTypeFilter
    typeFilterItems,   \* the item data of the typeFilter combo box, in order
    searchTimerActive, \* searchTimer is running
    refreshTimerActive,\* refreshTimer is running
    queuedStarts,      \* queued refreshTimer->start() calls not yet delivered
    resultsList,       \* the items of resultsList (positions in sources), in order
    refreshed,         \* Refresh() has run at least once
    lastOp,            \* the operation that produced this state
    dirty,             \* a signal was handled by an initialized dock and no Refresh ran since
    menu,              \* the context menu: the SourceItem pointer its actions captured
    hostCall,          \* what the last properties / filters request handed to the host
    danglingUse        \* a SourceItem was used after Clear had destroyed it

hostVars == <<objState, objName, topLevel, filtersOf, sceneItems, mainScenes, mutations>>
indexVars == <<sources, sourcesByUUID, discoveredTypes>>
paramVars == <<currentSearchText, currentSearchScope, currentTypeFilter>>
coalescerVars == <<refreshTimerActive, queuedStarts>>
dockVars == <<initialized, signalsConnected, visible, paramVars, typeFilterItems,
              searchTimerActive, coalescerVars>>
viewVars == <<resultsList>>
menuVars == <<menu, hostCall, danglingUse>>
vars == <<hostVars, indexVars, dockVars, viewVars, refreshed, lastOp, dirty, menuVars>>

\* no context menu is open
NoMenu == [open |-> FALSE, item |-> 0, stale |-> FALSE]
\* nothing was handed to the host
NoCall == [fn |-> "none", target |-> ""]

\* sources.clear() destroys every SourceItem: a pointer the open menu holds dangles
ItemsDestroyed ==
    menu' = IF menu.open THEN [menu EXCEPT !.stale = TRUE] ELSE menu

\* the objects that exist: a weak reference to one of them resolves
Alive == {o \in DOMAIN objState : objState[o] = "live"}

(***************************************************************************)
(* SourceItem                                                              *)
(***************************************************************************)
\* the empty map
NoEntries == [x \in {} |-> x]

\* m with key k set to v (std::map operator[] assignment)
MapPut(m, k, v) == [x \in (DOMAIN m) \cup {k} |-> IF x = k THEN v ELSE m[x]]

\* SourceItem::SourceItem: weak reference, class from the type, cached type id
NewSourceItem(o) ==
    [uuid |-> o,
     sourceClass |-> IF Kind(o) = "filter" THEN "Filter"
                     ELSE IF Kind(o) = "scene" THEN "Scene"
                     ELSE IF Kind(o) = "group" THEN "Group"
                     ELSE "Source",
     cachedTypeId |-> TypeIdOf(o),
     parentScenes |-> {},
     parentSourceName |-> sEmpty]

\* SourceItem::IsValid: the weak reference still resolves
IsValid(item) == item.uuid \in Alive

\* SourceItem::GetName: "" once the object is gone
GetName(item) == IF item.uuid \in Alive THEN objName[item.uuid] ELSE sEmpty

\* SourceItem::IsVerticalCanvas
IsVerticalCanvas(item) ==
    IF item.sourceClass # "Scene" THEN FALSE
    ELSE IF item.uuid \notin Alive THEN FALSE
    ELSE item.uuid \notin mainScenes

\* SourceItem::GetDisplayName
GetDisplayName(item) ==
    IF GetName(item) = sEmpty THEN sEmpty
    ELSE IF item.sourceClass = "Scene"
         THEN (IF IsVerticalCanvas(item) THEN sVPrefix ELSE sHPrefix) \o GetName(item)
         ELSE GetName(item)

IsFilter(item) == item.sourceClass = "Filter"
IsScene(item) == item.sourceClass = "Scene"
IsGroup(item) == item.sourceClass = "Group"

\* SOURCE_TYPE_NAMES, the rows of the modelled type ids
SourceTypeNames ==
    [t \in {idScene, idGroup, idImage} |->
        IF t = idScene THEN dnScene ELSE IF t = idGroup THEN dnGroup ELSE dnImage]

\* obs_source_get_display_name: the name a loaded plugin registered for the
\* type id, empty when no loaded plugin registers the id
HostDisplayName(typeId) == IF typeId = idFilter THEN dnFilter ELSE sEmpty

\* GetTypeDisplayName: the static table, else the host's name, else the id
GetTypeDisplayName(typeId) ==
    IF typeId \in DOMAIN SourceTypeNames THEN SourceTypeNames[typeId]
    ELSE IF HostDisplayName(typeId) # sEmpty THEN HostDisplayName(typeId)
    ELSE typeId

(***************************************************************************)
(* SourceCollection: an index value is [sources, sourcesByUUID,            *)
(* discoveredTypes]; the operators below thread it through the passes.     *)
(***************************************************************************)
Idx(s, b, t) == [sources |-> s, sourcesByUUID |-> b, discoveredTypes |-> t]

\* Clear leaving the previous generation in place
ClearKeepsGeneration(idx) == idx

\* Clear leaving the lookup in place
ClearKeepsLookup(idx) == Idx(<<>>, idx.sourcesByUUID, NoEntries)

\* Clear leaving the type catalog in place
ClearKeepsTypes(idx) == Idx(<<>>, NoEntries, idx.discoveredTypes)

\* SourceCollection::Clear
Clear(idx) == Idx(<<>>, NoEntries, NoEntries)

\* the tail of AddSource / AddFilter: track the type, add to both collections
Insert(idx, item) ==
    Idx(Append(idx.sources, item),
        MapPut(idx.sourcesByUUID, item.uuid, Len(idx.sources) + 1),
        IF item.cachedTypeId \in DOMAIN idx.discoveredTypes
        THEN idx.discoveredTypes
        ELSE MapPut(idx.discoveredTypes, item.cachedTypeId,
                    GetTypeDisplayName(item.cachedTypeId)))

\* the duplicate check left out
NoDuplicateCheck(idx, o) == FALSE

\* the duplicate check of AddSource / AddFilter
IsDuplicate(idx, o) == o \in DOMAIN idx.sourcesByUUID

\* AddSource without its "(Stinger)" name rule
AddSourceNoStinger(idx, o) ==
    IF Kind(o) \in {"filter", "transition"} THEN idx
    ELSE IF objName[o] = sEmpty THEN idx
    ELSE IF TypeIdOf(o) = idAudioMonitor THEN idx
    ELSE IF StrStr(TypeIdOf(o), sWrapper) THEN idx
    ELSE IF TypeIdOf(o) = idAudioLine THEN idx
    ELSE IF o \in DOMAIN idx.sourcesByUUID THEN idx
    ELSE IF o \notin Alive THEN idx
    ELSE Insert(idx, NewSourceItem(o))

\* SourceCollection::AddSource
AddSource(idx, o) ==
    IF Kind(o) \in {"filter", "transition"} THEN idx
    ELSE IF objName[o] = sEmpty THEN idx
    ELSE IF TypeIdOf(o) = idAudioMonitor THEN idx
    ELSE IF StrStr(TypeIdOf(o), sWrapper) THEN idx
    ELSE IF StrStr(objName[o], sStinger) THEN idx
    ELSE IF TypeIdOf(o) = idAudioLine THEN idx
    ELSE IF IsDuplicate(idx, o) THEN idx
    ELSE IF ~IsValid(NewSourceItem(o)) THEN idx
    ELSE Insert(idx, NewSourceItem(o))

\* AddFilter without its SetParentSourceName(parentName)
AddFilterNoParent(idx, f, parentName) ==
    IF objName[f] = sEmpty THEN idx
    ELSE IF IsDuplicate(idx, f) THEN idx
    ELSE Insert(idx, NewSourceItem(f))

\* AddFilter with every type and name rule of AddSource
AddFilterSameChecks(idx, f, parentName) ==
    IF objName[f] = sEmpty THEN idx
    ELSE IF TypeIdOf(f) = idAudioMonitor THEN idx
    ELSE IF StrStr(TypeIdOf(f), sWrapper) THEN idx
    ELSE IF StrStr(objName[f], sStinger) THEN idx
    ELSE IF TypeIdOf(f) = idAudioLine THEN idx
    ELSE IF f \in DOMAIN idx.sourcesByUUID THEN idx
    ELSE IF f \notin Alive THEN idx
    ELSE Insert(idx, [NewSourceItem(f) EXCEPT !.parentSourceName = parentName])

\* SourceCollection::AddFilter
AddFilter(idx, f, parentName) ==
    IF objName[f] = sEmpty THEN idx
    ELSE IF TypeIdOf(f) = idAudioMonitor THEN idx
    ELSE IF IsDuplicate(idx, f) THEN idx
    ELSE IF ~IsValid(NewSourceItem(f)) THEN idx
    ELSE Insert(idx, [NewSourceItem(f) EXCEPT !.parentSourceName = parentName])

\* obs_enum_all_sources / obs_source_enum_filters hand over live objects only
Live(seq) == SelectSeq(seq, LAMBDA o : o \in Alive)

\* obs_enum_all_sources(EnumAllSourcesCallback, this), from entry k on
RECURSIVE EnumAllSources(_, _, _)
EnumAllSources(idx, seq, k) ==
    IF k > Len(seq) THEN idx
    ELSE EnumAllSources(AddSource(idx, seq[k]), seq, k + 1)

\* obs_source_enum_filters on one source, from entry k on
RECURSIVE EnumFilters(_, _, _, _)
EnumFilters(idx, seq, parentName, k) ==
    IF k > Len(seq) THEN idx
    ELSE EnumFilters(AddFilter(idx, seq[k], parentName), seq, parentName, k + 1)

\* the loop of LinkFilters run over sources itself, which grows under it
RECURSIVE LinkFiltersGrowing(_, _, _)
LinkFiltersGrowing(idx, toEnumerate, k) ==
    IF k > Len(idx.sources) THEN idx
    ELSE IF ~IsValid(idx.sources[k]) THEN LinkFiltersGrowing(idx, toEnumerate, k + 1)
    ELSE LinkFiltersGrowing(
            EnumFilters(idx, Live(filtersOf[idx.sources[k].uuid]),
                        GetName(idx.sources[k]), 1),
            toEnumerate, k + 1)

\* the loop of LinkFilters over the copy sourcesToEnumerate, from entry k on
RECURSIVE LinkFiltersFrom(_, _, _)
LinkFiltersFrom(idx, toEnumerate, k) ==
    IF k > Len(toEnumerate) THEN idx
    ELSE IF ~IsValid(toEnumerate[k]) THEN LinkFiltersFrom(idx, toEnumerate, k + 1)
    ELSE LinkFiltersFrom(
            EnumFilters(idx, Live(filtersOf[toEnumerate[k].uuid]),
                        GetName(toEnumerate[k]), 1),
            toEnumerate, k + 1)

\* SourceCollection::LinkFilters
LinkFilters(idx) == LinkFiltersFrom(idx, idx.sources, 1)

\* obs_scene_from_source: the scene data of a source whose id is "scene";
\* null for every other source, a group included
SceneFromSource(o) == Kind(o) = "scene"

\* the items callback naming the scene on plain sources only
AddParentScenePlainOnly(srcs, byUUID, children, sceneName) ==
    [p \in DOMAIN srcs |->
        IF /\ srcs[p].sourceClass = "Source"
           /\ \E c \in children : c \in DOMAIN byUUID /\ byUUID[c] = p
        THEN [srcs[p] EXCEPT !.parentScenes = @ \cup {sceneName}]
        ELSE srcs[p]]

\* the items callback of LinkSceneItems for one scene: every item whose source
\* is in sourcesByUUID gets the scene's name
AddParentScene(srcs, byUUID, children, sceneName) ==
    [p \in DOMAIN srcs |->
        IF \E c \in children : c \in DOMAIN byUUID /\ byUUID[c] = p
        THEN [srcs[p] EXCEPT !.parentScenes = @ \cup {sceneName}]
        ELSE srcs[p]]

\* the loop of LinkSceneItems over sources, from entry k on
RECURSIVE LinkSceneItemsFrom(_, _)
LinkSceneItemsFrom(idx, k) ==
    IF k > Len(idx.sources) THEN idx
    ELSE IF ~IsScene(idx.sources[k]) /\ ~IsGroup(idx.sources[k])
         THEN LinkSceneItemsFrom(idx, k + 1)
    ELSE IF ~IsValid(idx.sources[k]) THEN LinkSceneItemsFrom(idx, k + 1)
    ELSE IF ~SceneFromSource(idx.sources[k].uuid) THEN LinkSceneItemsFrom(idx, k + 1)
    ELSE LinkSceneItemsFrom(
            [idx EXCEPT !.sources =
                AddParentScene(idx.sources, idx.sourcesByUUID,
                               sceneItems[idx.sources[k].uuid] \cap Alive,
                               GetName(idx.sources[k]))],
            k + 1)

\* SourceCollection::LinkSceneItems
LinkSceneItems(idx) == LinkSceneItemsFrom(idx, 1)

\* SourceCollection::Refresh, the host reporting top at top level
RefreshFrom(idx, top) ==
    LinkSceneItems(LinkFilters(EnumAllSources(Clear(idx), Live(top), 1)))

RefreshIndex(idx) == RefreshFrom(idx, topLevel)

CurrentIndex == Idx(sources, sourcesByUUID, discoveredTypes)

SetIndex(idx) ==
    /\ sources' = idx.sources
    /\ sourcesByUUID' = idx.sourcesByUUID
    /\ discoveredTypes' = idx.discoveredTypes

(***************************************************************************)
(* Search and the display rules of the dock.  Items are named by their     *)
(* position in sources (the SourceItem pointers of the code).              *)
(***************************************************************************)
\* MatchesSearch in which an empty text selects nothing
MatchesSearchEmptyNone(item, searchText) ==
    IF searchText = sEmpty THEN FALSE
    ELSE ContainsCaseInsensitive(GetName(item), searchText)

\* SourceItem::MatchesSearch
MatchesSearch(item, searchText) ==
    IF searchText = sEmpty THEN TRUE
    ELSE ContainsCaseInsensitive(GetName(item), searchText)

\* MatchesType comparing by containment instead of equality
MatchesTypeContains(item, typeFilter) ==
    IF typeFilter = sEmpty \/ typeFilter = sAll THEN TRUE
    ELSE StrStr(item.cachedTypeId, typeFilter)

\* SourceItem::MatchesType
MatchesType(item, typeFilter) ==
    IF typeFilter = sEmpty \/ typeFilter = sAll THEN TRUE
    ELSE item.cachedTypeId = typeFilter

\* the filter loop of Search: the items pushed to results
SearchMatches(srcs, searchText, typeFilter) ==
    {p \in DOMAIN srcs :
        /\ IsValid(srcs[p])
        /\ MatchesType(srcs[p], typeFilter)
        /\ MatchesSearch(srcs[p], searchText)}

\* a comparator on the annotated names
SortLessDisplayName(a, b) == StrLess(GetDisplayName(a), GetDisplayName(b))

\* the comparator Search hands to std::sort
SortLess(a, b) == StrLess(GetName(a), GetName(b))

\* std::sort of the items P: every order without an inversion under SortLess
\* (the order of items that compare equal is the library's choice)
RECURSIVE SortOutcomes(_, _)
SortOutcomes(srcs, P) ==
    IF P = {} THEN {<<>>}
    ELSE UNION {{<<m>> \o t : t \in SortOutcomes(srcs, P \ {m})} :
                m \in {x \in P : \A y \in P : ~SortLess(srcs[y], srcs[x])}}

\* SourceCollection::Search: the vectors it can return
Search(srcs, searchText, typeFilter) ==
    SortOutcomes(srcs, SearchMatches(srcs, searchText, typeFilter))

\* the scope filter without its "filters" branch
ScopeKeepsNoFilterBranch(item, scopeStr) ==
    ~(scopeStr = sSources /\ IsFilter(item))

\* UpdateResults, "Filter by search scope"
ScopeKeeps(item, scopeStr) ==
    /\ ~(scopeStr = sSources /\ IsFilter(item))
    /\ ~(scopeStr = sFilters /\ ~IsFilter(item))

\* the scene rule left out
SceneRuleOff(item) == TRUE

\* UpdateResults, "Skip sources that aren't in any scene"
SceneRuleKeeps(item) ==
    ~(~IsFilter(item) /\ ~IsScene(item) /\ ~IsGroup(item) /\ item.parentScenes = {})

\* the loop of UpdateResults over the vector Search returned
Displayed(srcs, results, scopeStr) ==
    SelectSeq(results, LAMBDA p : ScopeKeeps(srcs[p], scopeStr) /\ SceneRuleKeeps(srcs[p]))

\* SourceSearchDock::UpdateResults over the index idx
UpdateResults(idx, searchText, typeFilterStr, scopeStr) ==
    \E r \in Search(idx.sources, searchText, typeFilterStr) :
        resultsList' = Displayed(idx.sources, r, scopeStr)

(***************************************************************************)
(* The host graphs the index is built from.                                *)
(***************************************************************************)
\* every sequence over S of length at most n
SeqsUpTo(S, n) == UNION {[1..k -> S] : k \in 0..n}

\* a filter list holds filter sources only, each at most once
FilterLists == {<<>>} \cup {<<f>> : f \in FilterObjs}

\* the filter lists of a project: scenes and inputs carry filters
FilterChoices ==
    {[o \in Objs |-> IF Kind(o) = "scene" THEN a
                     ELSE IF Kind(o) = "input" THEN b
                     ELSE <<>>] : a \in FilterLists, b \in FilterLists}

\* the scene contents of a project
ItemChoices ==
    {[o \in Objs |-> IF Kind(o) = "scene" THEN a
                     ELSE IF Kind(o) = "group" THEN b
                     ELSE {}] :
        a \in SUBSET {c \in Objs : Kind(c) \in {"input", "group"}},
        b \in SUBSET {c \in Objs : Kind(c) = "input"}}

InitStructure ==
    /\ filtersOf \in FilterChoices
    /\ sceneItems \in ItemChoices

\* the state of the dock after its constructor
InitDock ==
    /\ initialized = FALSE
    /\ signalsConnected = FALSE
    /\ visible = FALSE
    /\ currentSearchText = sEmpty
    /\ currentSearchScope = sSources
    /\ currentTypeFilter = sEmpty
    /\ typeFilterItems = <<>>
    /\ searchTimerActive = FALSE
    /\ refreshTimerActive = FALSE
    /\ queuedStarts = 0
    /\ resultsList = <<>>
    /\ sources = <<>>
    /\ sourcesByUUID = NoEntries
    /\ discoveredTypes = NoEntries
    /\ refreshed = FALSE
    /\ lastOp = "init"
    /\ dirty = FALSE
    /\ menu = NoMenu
    /\ hostCall = NoCall
    /\ danglingUse = FALSE

\* the scan of arbitrary enumerations: every top-level report of at most
\* MaxTop entries, repeats and filters included
InitIndex ==
    /\ objState = [o \in Objs |-> "live"]
    /\ objName = [o \in Objs |-> IF o = "u-cam" THEN sCam ELSE CHOOSE n \in NamesOf(o) : TRUE]
    /\ topLevel \in SeqsUpTo(Objs, MaxTop)
    /\ InitStructure
    /\ mainScenes = {o \in Objs : Kind(o) = "scene"}
    /\ mutations = 0
    /\ InitDock

\* queries: the host reports every object once
InitQuery ==
    /\ objState = [o \in Objs |-> "live"]
    /\ objName = [o \in Objs |-> IF o = "u-cam" THEN sCam ELSE CHOOSE n \in NamesOf(o) : TRUE]
    /\ topLevel = <<"u-main", "u-grp", "u-cam", "u-blur">>
    /\ InitStructure
    /\ mainScenes \in SUBSET {o \in Objs : Kind(o) = "scene"}
    /\ mutations = 0
    /\ InitDock

(***************************************************************************)
(* Operations on the index alone.                                          *)
(***************************************************************************)
\* SourceCollection::Refresh
Refresh ==
    /\ SetIndex(RefreshIndex(CurrentIndex))
    /\ refreshed' = TRUE
    /\ dirty' = FALSE
    /\ ItemsDestroyed
    /\ lastOp' = "Refresh"
    /\ UNCHANGED <<hostVars, dockVars, viewVars, hostCall, danglingUse>>

\* SourceCollection::Clear
ClearIndex ==
    /\ SetIndex(Clear(CurrentIndex))
    /\ ItemsDestroyed
    /\ lastOp' = "Clear"
    /\ UNCHANGED <<hostVars, dockVars, viewVars, refreshed, dirty, hostCall, danglingUse>>

\* the host creates an object that did not exist yet
CreateObject(o) ==
    /\ objState[o] = "unborn"
    /\ objState' = [objState EXCEPT ![o] = "live"]
    /\ UNCHANGED <<objName, topLevel, filtersOf, sceneItems, mainScenes>>

\* the host destroys an object: weak references to it stop resolving and no
\* enumeration reports it any more
DestroyObject(o) ==
    /\ objState[o] = "live"
    /\ objState' = [objState EXCEPT ![o] = "gone"]
    /\ UNCHANGED <<objName, topLevel, filtersOf, sceneItems, mainScenes>>

\* the host renames an object
RenameObject(o, n) ==
    /\ objState[o] = "live"
    /\ n \in NamesOf(o) /\ n # objName[o]
    /\ objName' = [objName EXCEPT ![o] = n]
    /\ UNCHANGED <<objState, topLevel, filtersOf, sceneItems, mainScenes>>

\* a destroy while nothing is subscribed to the host's signals
HostDestroy ==
    /\ mutations < MaxMutations
    /\ \E o \in Objs : DestroyObject(o)
    /\ mutations' = mutations + 1
    /\ lastOp' = "HostDestroy"
    /\ UNCHANGED <<indexVars, dockVars, viewVars, refreshed, dirty, menuVars>>

\* a rename while nothing is subscribed to the host's signals
HostRename ==
    /\ mutations < MaxMutations
    /\ \E o \in Objs : \E n \in NamesOf(o) : RenameObject(o, n)
    /\ mutations' = mutations + 1
    /\ lastOp' = "HostRename"
    /\ UNCHANGED <<indexVars, dockVars, viewVars, refreshed, dirty, menuVars>>

NextIndex ==
    \/ Refresh
    \/ ClearIndex
    \/ HostDestroy

SpecIndex == InitIndex /\ [][NextIndex]_vars

(***************************************************************************)
(* The scan of a project that holds the host-internal objects as well.     *)
(***************************************************************************)
\* one top-level report of every object, the camera twice
AdmitOrder ==
    <<"u-main", "u-fade", "u-mon", "u-wrap", "u-line", "u-cam", "u-blur",
      "u-fmon", "u-grp", "u-vert", "u-ext", "u-fx", "u-cam">>

\* the names the name rules tell apart: a plain one, none, a stinger's
AdmitNames(o) ==
    CASE o = "u-cam" -> {sCam, sEmpty, sStinger}
      [] o = "u-blur" -> {sBlur, sEmpty, sStinger}
      [] OTHER -> NamesOf(o)

AdmitNameChoices ==
    {[o \in AllObjs |-> CASE o = "u-cam" -> a
                           [] o = "u-blur" -> b
                           [] OTHER -> CHOOSE n \in NamesOf(o) : TRUE] :
        a \in AdmitNames("u-cam"), b \in AdmitNames("u-blur")}

\* the filter lists: on the scene, on the camera, on the audio monitor (an
\* object the scan rejects) and on a filter
AdmitFilterChoices ==
    {[o \in AllObjs |-> CASE o = "u-main" -> a
                           [] o = "u-cam" -> b
                           [] o = "u-mon" -> c
                           [] o = "u-blur" -> d
                           [] OTHER -> <<>>] :
        a \in {<<>>, <<"u-blur">>},
        b \in {<<>>, <<"u-blur">>, <<"u-fmon", "u-blur">>},
        c \in {<<>>, <<"u-fx">>},
        d \in {<<>>, <<"u-fx">>}}

\* the scene contents: the first scene holds any of the camera, the group
\* and the audio monitor, the second scene any of the camera and the first
\* scene, the group may hold the camera
AdmitItemChoices ==
    {[o \in AllObjs |-> CASE o = "u-main" -> a
                           [] o = "u-vert" -> b
                           [] o = "u-grp" -> c
                           [] OTHER -> {}] :
        a \in SUBSET {"u-cam", "u-grp", "u-mon"},
        b \in SUBSET {"u-cam", "u-main"},
        c \in SUBSET {"u-cam"}}

InitAdmit ==
    /\ objState = [o \in AllObjs |-> "live"]
    /\ objName \in AdmitNameChoices
    /\ topLevel = AdmitOrder
    /\ filtersOf \in AdmitFilterChoices
    /\ sceneItems \in AdmitItemChoices
    /\ mainScenes = {"u-main"}
    /\ mutations = 0
    /\ InitDock

\* the operator removes the source of the plugin that is not loaded, while
\* nothing is subscribed to the host's signals
HostDestroyExt ==
    /\ mutations < MaxMutations
    /\ DestroyObject("u-ext")
    /\ mutations' = mutations + 1
    /\ lastOp' = "HostDestroy"
    /\ UNCHANGED <<indexVars, dockVars, viewVars, refreshed, dirty, menuVars>>

NextAdmit ==
    \/ Refresh
    \/ ClearIndex
    \/ HostDestroyExt

SpecAdmit == InitAdmit /\ [][NextAdmit]_vars

(***************************************************************************)
(* Queries: the same operations over projects in which the host reports    *)
(* every object once.  Search and UpdateResults are put to every search    *)
(* text, type filter and scope below.                                      *)
(***************************************************************************)
TextSet == {sEmpty, sCamLower, sCamUpper, sEAcuteLower, sEAcuteUpper, sImage, sMainLower}
TypeFilterSet == {sEmpty, sAll, idImage, idFilter, sImage}
ScopeSet == {sSources, sFilters, sAll}

NextQuery ==
    \/ Refresh
    \/ ClearIndex
    \/ HostDestroy
    \/ HostRename

SpecQuery == InitQuery /\ [][NextQuery]_vars

(***************************************************************************)
(* SourceSearchDock: the life of the dock, the host's notifications and    *)
(* the refresh debounce.  The project is the one of the end-to-end example *)
(* (a scene holding a group and a camera that carries a filter); the host  *)
(* creates, renames and destroys the camera.                               *)
(***************************************************************************)
\* queued refreshTimer->start() calls the event queue can hold at once
MaxQueued == 2

\* the objects the host mutates while the dock lives
DockMutable == {"u-cam"}
\* the names it gives them
DockNames == {sCam, sCamLower}
\* the texts the operator types, the scopes and the types the operator picks
DockTexts == {sEmpty, sCamLower}
DockScopes == {sSources, sAll}
DockTypes == {sAll, idImage}

InitSpec ==
    /\ objState \in {[o \in Objs |-> IF o \in DockMutable THEN st ELSE "live"] :
                        st \in {"unborn", "live"}}
    /\ objName = [o \in Objs |-> IF o = "u-cam" THEN sCam ELSE CHOOSE n \in NamesOf(o) : TRUE]
    /\ topLevel = <<"u-main", "u-grp", "u-cam", "u-blur">>
    /\ filtersOf = [o \in Objs |-> IF o = "u-cam" THEN <<"u-blur">> ELSE <<>>]
    /\ sceneItems = [o \in Objs |-> IF o = "u-main" THEN {"u-grp", "u-cam"} ELSE {}]
    /\ mainScenes = {"u-main"}
    /\ mutations = 0
    /\ InitDock

\* the types comparator UpdateTypeFilter hands to std::sort: by display name
TypeLess(types, a, b) == StrLess(types[a], types[b])

\* std::sort of the discovered types T by display name
RECURSIVE SortedTypes(_, _)
SortedTypes(types, T) ==
    IF T = {} THEN {<<>>}
    ELSE UNION {{<<m>> \o t : t \in SortedTypes(types, T \ {m})} :
                m \in {x \in T : \A y \in T : ~TypeLess(types, y, x)}}

\* the item data UpdateTypeFilter can leave in the combo box: "all" first
TypeFilterOutcomes(types) == {<<sAll>> \o t : t \in SortedTypes(types, DOMAIN types)}

\* UpdateTypeFilter, "Restore selection": the filter kept when it is still an
\* item, "all" otherwise
RestoredTypeFilter(items, currentSelection) ==
    IF \E i \in DOMAIN items : items[i] = currentSelection
    THEN currentSelection
    ELSE sAll

\* OnSourcesChanged running the query before the Refresh
SearchThenRefresh ==
    LET idx == RefreshIndex(CurrentIndex) IN
    /\ SetIndex(idx)
    /\ refreshed' = TRUE
    /\ dirty' = FALSE
    /\ ItemsDestroyed
    /\ \E items \in TypeFilterOutcomes(idx.discoveredTypes) :
          /\ typeFilterItems' = items
          /\ currentTypeFilter' = RestoredTypeFilter(items, currentTypeFilter)
          /\ UpdateResults(CurrentIndex, currentSearchText, currentTypeFilter,
                           currentSearchScope)

\* Refresh(); UpdateTypeFilter(); PerformSearch(): the body shared by the
\* first showEvent and OnSourcesChanged
RefreshAndShow ==
    LET idx == RefreshIndex(CurrentIndex) IN
    /\ SetIndex(idx)
    /\ refreshed' = TRUE
    /\ dirty' = FALSE
    /\ ItemsDestroyed
    /\ \E items \in TypeFilterOutcomes(idx.discoveredTypes) :
          /\ typeFilterItems' = items
          /\ currentTypeFilter' = RestoredTypeFilter(items, currentTypeFilter)
          /\ UpdateResults(idx, currentSearchText,
                           RestoredTypeFilter(items, currentTypeFilter),
                           currentSearchScope)

\* Initialize building the index at once instead of leaving it to showEvent
InitializeRefreshes ==
    /\ signalsConnected' = TRUE
    /\ SetIndex(RefreshIndex(CurrentIndex))
    /\ refreshed' = TRUE
    /\ ItemsDestroyed
    /\ lastOp' = "Initialize"
    /\ UNCHANGED <<hostVars, viewVars, initialized, visible, paramVars,
                   typeFilterItems, searchTimerActive, coalescerVars, dirty,
                   hostCall, danglingUse>>

\* SourceSearchDock::Initialize (FINISHED_LOADING, SCENE_COLLECTION_CHANGED)
Initialize ==
    /\ signalsConnected' = TRUE
    /\ lastOp' = "Initialize"
    /\ UNCHANGED <<hostVars, indexVars, viewVars, refreshed, initialized, visible,
                   paramVars, typeFilterItems, searchTimerActive, coalescerVars,
                   dirty, menuVars>>

\* SourceSearchDock::Cleanup (SCENE_COLLECTION_CLEANUP, SCRIPTING_SHUTDOWN)
Cleanup ==
    /\ signalsConnected' = FALSE
    /\ SetIndex(Clear(CurrentIndex))
    /\ resultsList' = <<>>
    /\ typeFilterItems' = <<>>
    /\ ItemsDestroyed
    /\ lastOp' = "Cleanup"
    /\ UNCHANGED <<hostVars, refreshed, initialized, visible, paramVars,
                   searchTimerActive, coalescerVars, dirty, hostCall, danglingUse>>

\* SourceSearchDock::showEvent
ShowEvent ==
    /\ ~visible
    /\ visible' = TRUE
    /\ IF ~initialized
       THEN /\ initialized' = TRUE
            /\ RefreshAndShow
       ELSE UNCHANGED <<initialized, indexVars, refreshed, typeFilterItems,
                        currentTypeFilter, viewVars, dirty, menu>>
    /\ lastOp' = "showEvent"
    /\ UNCHANGED <<hostVars, signalsConnected, currentSearchText, currentSearchScope,
                   searchTimerActive, coalescerVars, hostCall, danglingUse>>

\* the dock is hidden (closed, or its tab left)
HideEvent ==
    /\ visible
    /\ visible' = FALSE
    /\ lastOp' = "hideEvent"
    /\ UNCHANGED <<hostVars, indexVars, viewVars, refreshed, initialized,
                   signalsConnected, paramVars, typeFilterItems, searchTimerActive,
                   coalescerVars, dirty, menuVars>>

\* a handler without the test of initialized
OnSourceSignalUnguarded ==
    /\ queuedStarts' = queuedStarts + 1
    /\ UNCHANGED <<refreshTimerActive, indexVars, viewVars, refreshed>>

\* a handler that refreshes the index itself, on the thread of the signal
OnSourceSignalRefreshes ==
    /\ SetIndex(RefreshIndex(CurrentIndex))
    /\ refreshed' = TRUE
    /\ UNCHANGED <<coalescerVars, viewVars>>

\* OnSourceCreate / OnSourceDestroy / OnSourceRename: the three handlers have
\* the same body
OnSourceSignal ==
    /\ IF initialized
       THEN /\ queuedStarts' = queuedStarts + 1
            /\ UNCHANGED refreshTimerActive
       ELSE UNCHANGED coalescerVars
    /\ UNCHANGED <<indexVars, viewVars, refreshed>>

\* the host emits a signal: the handler runs when it is connected
EmitSignal ==
    /\ IF signalsConnected THEN OnSourceSignal
       ELSE UNCHANGED <<coalescerVars, indexVars, viewVars, refreshed>>
    /\ dirty' = IF signalsConnected /\ initialized THEN TRUE ELSE dirty

\* the host changes the project and emits source_create, source_destroy or
\* source_rename
SourceCreated ==
    /\ queuedStarts < MaxQueued
    /\ \E o \in DockMutable : CreateObject(o)
    /\ EmitSignal
    /\ lastOp' = "source_create"
    /\ UNCHANGED <<mutations, initialized, signalsConnected, visible, paramVars,
                   typeFilterItems, searchTimerActive, menuVars>>

SourceDestroyed ==
    /\ queuedStarts < MaxQueued
    /\ \E o \in DockMutable : DestroyObject(o)
    /\ EmitSignal
    /\ lastOp' = "source_destroy"
    /\ UNCHANGED <<mutations, initialized, signalsConnected, visible, paramVars,
                   typeFilterItems, searchTimerActive, menuVars>>

SourceRenamed ==
    /\ queuedStarts < MaxQueued
    /\ \E o \in DockMutable : \E n \in DockNames : RenameObject(o, n)
    /\ EmitSignal
    /\ lastOp' = "source_rename"
    /\ UNCHANGED <<mutations, initialized, signalsConnected, visible, paramVars,
                   typeFilterItems, searchTimerActive, menuVars>>

\* a delivered start that leaves the timer as it is
DeliverStartLost ==
    /\ queuedStarts > 0
    /\ queuedStarts' = queuedStarts - 1
    /\ UNCHANGED refreshTimerActive
    /\ lastOp' = "refreshTimer.start"
    /\ UNCHANGED <<hostVars, indexVars, viewVars, refreshed, initialized,
                   signalsConnected, visible, paramVars, typeFilterItems,
                   searchTimerActive, dirty, menuVars>>

\* the event loop delivers one queued refreshTimer->start(): the single-shot
\* timer is (re)started
DeliverStart ==
    /\ queuedStarts > 0
    /\ queuedStarts' = queuedStarts - 1
    /\ refreshTimerActive' = TRUE
    /\ lastOp' = "refreshTimer.start"
    /\ UNCHANGED <<hostVars, indexVars, viewVars, refreshed, initialized,
                   signalsConnected, visible, paramVars, typeFilterItems,
                   searchTimerActive, dirty, menuVars>>

\* refreshTimer times out: SourceSearchDock::OnSourcesChanged
OnSourcesChanged ==
    /\ refreshTimerActive
    /\ refreshTimerActive' = FALSE
    /\ RefreshAndShow
    /\ lastOp' = "OnSourcesChanged"
    /\ UNCHANGED <<hostVars, initialized, signalsConnected, visible,
                   currentSearchText, currentSearchScope, searchTimerActive,
                   queuedStarts, hostCall, danglingUse>>

\* OnSearchTextChanged without its searchTimer->start()
OnSearchTextChangedNoTimer ==
    /\ visible
    /\ \E text \in DockTexts : text # currentSearchText /\ currentSearchText' = text
    /\ lastOp' = "OnSearchTextChanged"
    /\ UNCHANGED <<hostVars, indexVars, viewVars, refreshed, initialized,
                   signalsConnected, visible, currentSearchScope, currentTypeFilter,
                   typeFilterItems, searchTimerActive, coalescerVars, dirty, menuVars>>

\* SourceSearchDock::OnSearchTextChanged
OnSearchTextChanged ==
    /\ visible
    /\ \E text \in DockTexts : text # currentSearchText /\ currentSearchText' = text
    /\ searchTimerActive' = TRUE
    /\ lastOp' = "OnSearchTextChanged"
    /\ UNCHANGED <<hostVars, indexVars, viewVars, refreshed, initialized,
                   signalsConnected, visible, currentSearchScope, currentTypeFilter,
                   typeFilterItems, coalescerVars, dirty, menuVars>>

\* searchTimer times out: SourceSearchDock::PerformSearch
PerformSearch ==
    /\ searchTimerActive
    /\ searchTimerActive' = FALSE
    /\ UpdateResults(CurrentIndex, currentSearchText, currentTypeFilter, currentSearchScope)
    /\ lastOp' = "PerformSearch"
    /\ UNCHANGED <<hostVars, indexVars, refreshed, initialized, signalsConnected,
                   visible, paramVars, typeFilterItems, coalescerVars, dirty, menuVars>>

\* SourceSearchDock::OnSearchScopeChanged
OnSearchScopeChanged ==
    /\ visible
    /\ \E scope \in DockScopes : scope # currentSearchScope /\
          /\ currentSearchScope' = scope
          /\ UpdateResults(CurrentIndex, currentSearchText, currentTypeFilter, scope)
    /\ lastOp' = "OnSearchScopeChanged"
    /\ UNCHANGED <<hostVars, indexVars, refreshed, initialized, signalsConnected,
                   visible, currentSearchText, currentTypeFilter, typeFilterItems,
                   searchTimerActive, coalescerVars, dirty, menuVars>>

\* SourceSearchDock::OnTypeFilterChanged, the operator picking another item
OnTypeFilterChanged ==
    /\ visible
    /\ \E i \in DOMAIN typeFilterItems :
          /\ typeFilterItems[i] \in DockTypes
          /\ typeFilterItems[i] # currentTypeFilter
          /\ currentTypeFilter' = typeFilterItems[i]
          /\ UpdateResults(CurrentIndex, currentSearchText, typeFilterItems[i],
                           currentSearchScope)
    /\ lastOp' = "OnTypeFilterChanged"
    /\ UNCHANGED <<hostVars, indexVars, refreshed, initialized, signalsConnected,
                   visible, currentSearchText, currentSearchScope, typeFilterItems,
                   searchTimerActive, coalescerVars, dirty, menuVars>>

Next ==
    \/ Initialize
    \/ Cleanup
    \/ ShowEvent
    \/ HideEvent
    \/ SourceCreated
    \/ SourceDestroyed
    \/ SourceRenamed
    \/ DeliverStart
    \/ OnSourcesChanged
    \/ OnSearchTextChanged
    \/ PerformSearch
    \/ OnSearchScopeChanged
    \/ OnTypeFilterChanged

Spec == InitSpec /\ [][Next]_vars

(***************************************************************************)
(* The operator's requests on a result: double click and context menu.     *)
(* QMenu::exec runs an event loop of its own, so timers expire, queued     *)
(* calls are delivered and frontend events arrive while the menu is open   *)
(* and its actions hold the SourceItem pointer of the entry.               *)
(***************************************************************************)
\* the requests on an item without the test of GetSource()
OpenUnresolved(fn, p, dangling) ==
    /\ hostCall' = [fn |-> fn, target |-> sources[p].uuid]
    /\ UNCHANGED danglingUse

\* OpenSourceProperties / OpenSourceFilters on the SourceItem that stood at
\* position p: GetSource(), nothing when it is null, else the host function
\* fn.  On an item that Clear destroyed item->GetSource() reads freed memory:
\* no call, a call on whatever object the memory names, or a crash.
OpenSource(fn, p, dangling) ==
    IF dangling
    THEN /\ danglingUse' = TRUE
         /\ hostCall' \in {NoCall, [fn |-> "crash", target |-> ""]}
                            \cup {[fn |-> fn, target |-> o] : o \in Alive}
    ELSE /\ hostCall' = IF IsValid(sources[p])
                        THEN [fn |-> fn, target |-> sources[p].uuid]
                        ELSE NoCall
         /\ UNCHANGED danglingUse

OpenSourceProperties(p, dangling) == OpenSource("properties", p, dangling)
OpenSourceFilters(p, dangling) == OpenSource("filters", p, dangling)

\* SourceSearchDock::OnResultDoubleClicked
OnResultDoubleClicked ==
    /\ visible /\ ~menu.open
    /\ \E i \in DOMAIN resultsList : OpenSourceProperties(resultsList[i], FALSE)
    /\ lastOp' = "OnResultDoubleClicked"
    /\ UNCHANGED <<hostVars, indexVars, dockVars, viewVars, refreshed, dirty, menu>>

\* SourceSearchDock::OnResultContextMenu up to menu.exec: the two actions
\* capture the item of the entry under the pointer
OnResultContextMenu ==
    /\ visible /\ ~menu.open
    /\ \E i \in DOMAIN resultsList :
          menu' = [open |-> TRUE, item |-> resultsList[i], stale |-> FALSE]
    /\ lastOp' = "OnResultContextMenu"
    /\ UNCHANGED <<hostVars, indexVars, dockVars, viewVars, refreshed, dirty,
                   hostCall, danglingUse>>

\* the operator picks "Open Properties" in the menu
MenuOpenProperties ==
    /\ menu.open
    /\ OpenSourceProperties(menu.item, menu.stale)
    /\ menu' = NoMenu
    /\ lastOp' = "menu.OpenProperties"
    /\ UNCHANGED <<hostVars, indexVars, dockVars, viewVars, refreshed, dirty>>

\* the operator picks "Open Filters" in the menu
MenuOpenFilters ==
    /\ menu.open
    /\ OpenSourceFilters(menu.item, menu.stale)
    /\ menu' = NoMenu
    /\ lastOp' = "menu.OpenFilters"
    /\ UNCHANGED <<hostVars, indexVars, dockVars, viewVars, refreshed, dirty>>

\* the operator closes the menu without a choice
MenuDismissed ==
    /\ menu.open
    /\ menu' = NoMenu
    /\ lastOp' = "menu.dismissed"
    /\ UNCHANGED <<hostVars, indexVars, dockVars, viewVars, refreshed, dirty,
                   hostCall, danglingUse>>

NextMenu ==
    \/ Initialize
    \/ Cleanup
    \/ ShowEvent
    \/ SourceDestroyed
    \/ SourceRenamed
    \/ DeliverStart
    \/ OnSourcesChanged
    \/ OnResultDoubleClicked
    \/ OnResultContextMenu
    \/ MenuOpenProperties
    \/ MenuOpenFilters
    \/ MenuDismissed

SpecMenu == InitSpec /\ [][NextMenu]_vars

(***************************************************************************)
(* Properties of the index.                                                *)
(***************************************************************************)
Range(seq) == {seq[i] : i \in DOMAIN seq}

\* where x is first reported in seq
FirstPos(seq, x) == CHOOSE i \in DOMAIN seq : seq[i] = x /\ \A j \in 1..(i - 1) : seq[j] # x

\* the records of the objects found at top level, and of the filters
TopRecords == {i \in DOMAIN sources : ~IsFilter(sources[i])}
FilterRecords == {i \in DOMAIN sources : IsFilter(sources[i])}

\* the recorded objects whose filter list reports the filter of record i
ParentsReporting(i) ==
    {k \in TopRecords : sources[i].uuid \in Range(Live(filtersOf[sources[k].uuid]))}

\* C1: no two records of the index share an identity; and right after a
\* Refresh the record of an identity is the one of its first occurrence: the
\* top-level records stand in the order of the first reports of their objects,
\* and a filter reported under several recorded objects carries the name of
\* the first of them.
C1_UniqueFirstOccurrence ==
    /\ \A i, j \in DOMAIN sources : sources[i].uuid = sources[j].uuid => i = j
    /\ lastOp = "Refresh" =>
        /\ \A i, j \in TopRecords :
              i < j => FirstPos(Live(topLevel), sources[i].uuid)
                         < FirstPos(Live(topLevel), sources[j].uuid)
        /\ \A i \in FilterRecords :
              /\ ParentsReporting(i) # {}
              /\ \A k \in ParentsReporting(i) :
                    (\A m \in ParentsReporting(i) : k <= m)
                       => sources[i].parentSourceName = GetName(sources[k])

\* a Refresh over a top-level report that repeats a recorded object and over
\* two recorded objects that both report the same filter
C1_Witness ==
    /\ lastOp = "Refresh"
    /\ \E a, b \in DOMAIN topLevel :
          a < b /\ topLevel[a] = topLevel[b] /\ topLevel[a] \in DOMAIN sourcesByUUID
    /\ \E i \in FilterRecords : Cardinality(ParentsReporting(i)) = 2

\* C2: a record has a parent-source name exactly when it is a filter.
C2_AttachedIffFilter ==
    \A i \in DOMAIN sources :
        (sources[i].parentSourceName # sEmpty) <=> (sources[i].sourceClass = "Filter")

\* an index holding a scene, a group, a plain source and a filter
C2_Witness ==
    /\ lastOp = "Refresh"
    /\ \A c \in {"Scene", "Group", "Source", "Filter"} :
          \E i \in DOMAIN sources : sources[i].sourceClass = c

\* the (identity, classification, typeTag, parentContainers, attachedToName)
\* tuples of a record list
TupleSet(srcs) ==
    {<<srcs[i].uuid, srcs[i].sourceClass, srcs[i].cachedTypeId,
       srcs[i].parentScenes, srcs[i].parentSourceName>> : i \in DOMAIN srcs}

\* C3: right after a Refresh, whatever the index held before, a second
\* Refresh against the unchanged graph yields the same tuples and the same
\* type catalog, and both are those of a Refresh that starts from an empty
\* index.
C3_RefreshIdempotent ==
    lastOp = "Refresh" =>
        LET again == RefreshIndex(CurrentIndex)
            fresh == RefreshIndex(Idx(<<>>, NoEntries, NoEntries))
        IN  /\ TupleSet(again.sources) = TupleSet(sources)
            /\ again.discoveredTypes = discoveredTypes
            /\ TupleSet(fresh.sources) = TupleSet(sources)
            /\ fresh.discoveredTypes = discoveredTypes

\* a Refresh after the host destroyed an object that the index had recorded
\* or could have recorded, with records, a filter and parent scenes in it
C3_Witness ==
    /\ lastOp = "Refresh"
    /\ mutations > 0
    /\ \E i \in DOMAIN sources : sources[i].parentScenes # {}
    /\ FilterRecords # {}

(***************************************************************************)
(* Properties of Search and of the displayed list, for every search text,  *)
(* type filter and scope of TextSet, TypeFilterSet and ScopeSet.           *)
(***************************************************************************)
\* the records UpdateResults shows for the vector r
Shown(r, scopeStr) == Range(Displayed(sources, r, scopeStr))

\* C4: for every type filter and scope, whatever a non-empty search text
\* shows is also shown for the empty search text.
C4_SearchMonotone ==
    \A tf \in TypeFilterSet : \A sc \in ScopeSet : \A S \in TextSet :
        \A r \in Search(sources, S, tf) : \A r0 \in Search(sources, sEmpty, tf) :
            Shown(r, sc) \subseteq Shown(r0, sc)

\* a non-empty text that shows some, but not all, of what the empty text shows
C4_Witness ==
    /\ lastOp = "Refresh"
    /\ \E tf \in TypeFilterSet : \E sc \in ScopeSet : \E S \in TextSet \ {sEmpty} :
          \E r \in Search(sources, S, tf) : \E r0 \in Search(sources, sEmpty, tf) :
              Shown(r, sc) # {} /\ Shown(r, sc) # Shown(r0, sc)

\* lower case of a UTF-8 string: A-Z and the two-byte letters U+00C0..U+00DE
Utf8Lower(s) ==
    [i \in DOMAIN s |->
        IF s[i] \in 65..90 THEN s[i] + 32
        ELSE IF i > 1 /\ s[i - 1] = 195 /\ s[i] \in 128..158 /\ s[i] # 151 THEN s[i] + 32
        ELSE s[i]]

\* lower case of the letters A-Z alone
AsciiLower(s) == [i \in DOMAIN s |-> IF s[i] \in 65..90 THEN s[i] + 32 ELSE s[i]]

\* the valid records of the type filter tf
Candidates(tf) == {p \in DOMAIN sources : IsValid(sources[p]) /\ MatchesType(sources[p], tf)}

\* C5: text matching is case-insensitive substring containment on the name
\* only: a record is selected exactly when its name contains the text up to
\* letter case, and two texts that differ only in letter case select the same
\* records.
C5_CaseInsensitiveNameOnly ==
    \A tf \in TypeFilterSet :
        /\ \A S \in TextSet : \A p \in Candidates(tf) :
              p \in SearchMatches(sources, S, tf)
                 <=> StrStr(Utf8Lower(GetName(sources[p])), Utf8Lower(S))
        /\ \A S1, S2 \in TextSet :
              Utf8Lower(S1) = Utf8Lower(S2)
                 => SearchMatches(sources, S1, tf) = SearchMatches(sources, S2, tf)

\* C5, for the letters A-Z: a record is selected exactly when its name
\* contains the text up to the case of ASCII letters, whatever its type id,
\* its parent scenes and its parent-source name hold.
C5_AsciiCaseInsensitive ==
    \A tf \in TypeFilterSet :
        /\ \A S \in TextSet : \A p \in Candidates(tf) :
              p \in SearchMatches(sources, S, tf)
                 <=> StrStr(AsciiLower(GetName(sources[p])), AsciiLower(S))
        /\ \A S1, S2 \in TextSet :
              AsciiLower(S1) = AsciiLower(S2)
                 => SearchMatches(sources, S1, tf) = SearchMatches(sources, S2, tf)

\* "cam" and "CAM" select the record named "Cam" and not the filter attached
\* to it, and "image" does not select the record of type image_source
C5_Witness ==
    /\ lastOp = "Refresh"
    /\ \E p \in SearchMatches(sources, sCamLower, sEmpty) : GetName(sources[p]) = sCam
    /\ SearchMatches(sources, sCamUpper, sEmpty) = SearchMatches(sources, sCamLower, sEmpty)
    /\ \E p \in DOMAIN sources :
          /\ sources[p].parentSourceName = sCam
          /\ p \notin SearchMatches(sources, sCamLower, sEmpty)
    /\ \E p \in DOMAIN sources : IsValid(sources[p]) /\ sources[p].cachedTypeId = idImage
    /\ SearchMatches(sources, sImage, sEmpty) = {}

\* C6: a type filter other than "" and "all" returns only records whose type
\* id equals it, and with an empty text all of them; "" and "all" return the
\* valid records of every type; a filter equal to no record's type id returns
\* the empty list.
C6_TypeFilterExact ==
    \A S \in TextSet : \A tf \in TypeFilterSet : \A r \in Search(sources, S, tf) :
        /\ tf \notin {sEmpty, sAll} => \A p \in Range(r) : sources[p].cachedTypeId = tf
        /\ S = sEmpty =>
              Range(r) = {p \in DOMAIN sources :
                            /\ IsValid(sources[p])
                            /\ tf \in {sEmpty, sAll} \/ sources[p].cachedTypeId = tf}
        /\ (\A p \in DOMAIN sources : sources[p].cachedTypeId # tf) /\ tf \notin {sEmpty, sAll}
              => r = <<>>

\* records of several types, of which the filter "image_source" returns some
\* and not all, and the filter "image" none
C6_Witness ==
    /\ lastOp = "Refresh"
    /\ Search(sources, sEmpty, sImage) = {<<>>}
    /\ \E r \in Search(sources, sEmpty, idImage) : \E r0 \in Search(sources, sEmpty, sAll) :
          r # <<>> /\ Range(r) # Range(r0)

\* the names, and the annotated names, along a result vector
NameSeq(srcs, r) == [i \in DOMAIN r |-> GetName(srcs[r[i]])]
DisplayNameSeq(srcs, r) == [i \in DOMAIN r |-> GetDisplayName(srcs[r[i]])]

\* no element of a sequence of strings is less than an earlier one
NonDecreasing(names) ==
    \A i, j \in DOMAIN names : i < j => ~StrLess(names[j], names[i])

\* a sequence in every order
Reorderings(seq) ==
    {[i \in DOMAIN seq |-> seq[f[i]]] :
        f \in {g \in [DOMAIN seq -> DOMAIN seq] : \A a, b \in DOMAIN seq : g[a] = g[b] => a = b}}

\* the name sequences Search can return over srcs
NameSeqs(srcs, S, tf) == {NameSeq(srcs, r) : r \in Search(srcs, S, tf)}

\* C7 as stated, with GetDisplayName as the display name: the annotated
\* names along every vector Search returns never decrease byte-wise.
C7_OrderedByDisplayName ==
    \A S \in TextSet : \A tf \in TypeFilterSet : \A r \in Search(sources, S, tf) :
        NonDecreasing(DisplayNameSeq(sources, r))

\* C7: the names (GetName, without the "(H) " / "(V) " annotation) along every
\* vector Search returns never decrease byte-wise, and right after a Refresh
\* the sequence of names is the one Search returns after a Refresh to which
\* the host reported the same objects in any other order.
C7_OrderedByName ==
    /\ \A S \in TextSet : \A tf \in TypeFilterSet : \A r \in Search(sources, S, tf) :
          NonDecreasing(NameSeq(sources, r))
    /\ lastOp = "Refresh" =>
          \A top \in Reorderings(topLevel) :
              LET other == RefreshFrom(CurrentIndex, top).sources
              IN  \A S \in TextSet : \A tf \in TypeFilterSet :
                     NameSeqs(other, S, tf) = NameSeqs(sources, S, tf)

\* a result of a scene and two more records, in an order that differs from the
\* order of the records in the index
C7_Witness ==
    /\ lastOp = "Refresh"
    /\ \E r \in Search(sources, sEmpty, sEmpty) :
          /\ Len(r) >= 3
          /\ \E i \in DOMAIN r : IsScene(sources[r[i]])
          /\ \E i, j \in DOMAIN r : i < j /\ r[i] > r[j]

\* C8: no record of class Source with an empty set of parent scenes is ever
\* shown, and every scene, group and filter that Search returned and the
\* scope keeps is shown, parent scenes or not.
C8_OrphanExclusion ==
    \A S \in TextSet : \A tf \in TypeFilterSet : \A sc \in ScopeSet :
        \A r \in Search(sources, S, tf) :
            /\ \A p \in Shown(r, sc) :
                  ~(sources[p].sourceClass = "Source" /\ sources[p].parentScenes = {})
            /\ \A p \in Range(r) :
                  sources[p].sourceClass # "Source" /\ ScopeKeeps(sources[p], sc)
                     => p \in Shown(r, sc)
            /\ \A p \in Range(r) :
                  sources[p].parentScenes # {} /\ ScopeKeeps(sources[p], sc)
                     => p \in Shown(r, sc)

\* Search returns a plain source no scene holds, which is not shown, next to a
\* scene without parent scenes, which is
C8_Witness ==
    /\ lastOp = "Refresh"
    /\ \E r \in Search(sources, sEmpty, sEmpty) :
          /\ \E p \in Range(r) :
                /\ sources[p].sourceClass = "Source" /\ sources[p].parentScenes = {}
                /\ p \notin Shown(r, sAll)
          /\ \E p \in Shown(r, sAll) :
                sources[p].sourceClass = "Scene" /\ sources[p].parentScenes = {}

\* C9: under scope "sources" no filter is shown, under "filters" only filters
\* are, and "all" shows the union of the two; in each scope the shown records
\* are those of Search's result that pass the scope and the scene rule, so
\* the scope composes with the text and the type filter.
C9_ScopeFilter ==
    \A S \in TextSet : \A tf \in TypeFilterSet : \A r \in Search(sources, S, tf) :
        /\ \A p \in Shown(r, sSources) : ~IsFilter(sources[p])
        /\ \A p \in Shown(r, sFilters) : IsFilter(sources[p])
        /\ Shown(r, sAll) = Shown(r, sSources) \cup Shown(r, sFilters)
        /\ Shown(r, sSources) = {p \in Range(r) : ~IsFilter(sources[p]) /\ SceneRuleKeeps(sources[p])}
        /\ Shown(r, sFilters) = {p \in Range(r) : IsFilter(sources[p])}

\* a result of which each of the scopes "sources" and "filters" shows a part
C9_Witness ==
    /\ lastOp = "Refresh"
    /\ \E r \in Search(sources, sEmpty, sEmpty) :
          Shown(r, sSources) # {} /\ Shown(r, sFilters) # {}

(***************************************************************************)
(* Properties of the dock.                                                 *)
(***************************************************************************)
SignalOps == {"source_create", "source_destroy", "source_rename"}

\* a refreshTimer->start() is queued or the timer runs
PendingRefresh == queuedStarts > 0 \/ refreshTimerActive

\* C10: while the dock has never been shown (initialized is false) no start is
\* queued, the refresh timer does not run and no Refresh has happened, and a
\* source_create, source_destroy or source_rename handled in that condition
\* leaves the coalescer, the index and the displayed list as they are; once
\* initialized, every such signal handled leaves a refresh pending.
C10_IdleGuard ==
    /\ [](~initialized => ~PendingRefresh /\ ~refreshed)
    /\ [][lastOp' \in SignalOps /\ signalsConnected =>
            IF initialized
            THEN PendingRefresh' /\ queuedStarts' = queuedStarts + 1
            ELSE UNCHANGED <<coalescerVars, indexVars, viewVars, refreshed>>]_vars

\* a signal was handled before the dock was first shown
C10_Witness ==
    /\ lastOp \in SignalOps
    /\ signalsConnected
    /\ ~initialized
    /\ ~PendingRefresh

\* a signal reaches a connected handler of an initialized dock in this step
SignalHandled == lastOp' \in SignalOps /\ signalsConnected /\ initialized

\* C11 as stated, a burst being handler calls: the notifications of a burst
\* get one Refresh, after the last of them, so a refresh is pending exactly
\* while some handled notification has not been followed by a Refresh.
C11_OneRefreshPerBurst ==
    /\ dirty => PendingRefresh
    /\ PendingRefresh => dirty

\* C11: every handled notification is followed by a Refresh (while one has
\* not been, a start is queued or the timer runs); a notification handled
\* while a refresh is pending runs no Refresh itself and leaves it pending;
\* every delivered start leaves the single-shot timer running; and the timer
\* expires only while it runs, with one Refresh, after which it is stopped
\* and no handled notification is left without a Refresh.
C11_CoalescedRefresh ==
    /\ [](dirty => PendingRefresh)
    /\ [][SignalHandled /\ PendingRefresh =>
             PendingRefresh' /\ dirty' /\ UNCHANGED <<indexVars, refreshTimerActive>>]_vars
    /\ [][lastOp' = "refreshTimer.start" => refreshTimerActive' /\ UNCHANGED indexVars]_vars
    /\ [][lastOp' = "OnSourcesChanged" =>
             /\ refreshTimerActive /\ ~refreshTimerActive'
             /\ CurrentIndex' = RefreshIndex(CurrentIndex)
             /\ ~dirty']_vars

\* a notification was handled while the timer was running
C11_Witness ==
    /\ lastOp \in SignalOps
    /\ initialized /\ signalsConnected
    /\ refreshTimerActive
    /\ queuedStarts > 0
    /\ dirty

ListedAlive == {i \in DOMAIN resultsList : IsValid(sources[resultsList[i]])}

\* C13: Search never returns a record whose object no longer resolves; a
\* properties or filters request on a record of the index whose object was
\* destroyed hands nothing to the host and changes nothing, and a request
\* that does call the host hands it an object that resolves.
C13_StalenessSafety ==
    /\ [](\A text \in DockTexts : \A tf \in DockTypes \cup {sEmpty} :
             \A r \in Search(sources, text, tf) :
                \A i \in DOMAIN r : sources[r[i]].uuid \in Alive)
    /\ [][lastOp' = "OnResultDoubleClicked" =>
             /\ hostCall' = NoCall \/
                   \E i \in ListedAlive :
                      hostCall' = [fn |-> "properties", target |-> sources[resultsList[i]].uuid]
             /\ ListedAlive = {} => hostCall' = NoCall
             /\ UNCHANGED <<hostVars, indexVars, dockVars, viewVars, danglingUse>>]_vars
    /\ [][lastOp' \in {"menu.OpenProperties", "menu.OpenFilters"} /\ ~menu.stale =>
             /\ hostCall' = IF IsValid(sources[menu.item])
                            THEN [fn |-> IF lastOp' = "menu.OpenProperties"
                                         THEN "properties" ELSE "filters",
                                  target |-> sources[menu.item].uuid]
                            ELSE NoCall
             /\ UNCHANGED <<hostVars, indexVars, dockVars, viewVars, danglingUse>>]_vars

\* a double click on a listed record whose object was destroyed after the
\* snapshot handed nothing to the host
C13_Witness ==
    /\ lastOp = "OnResultDoubleClicked"
    /\ hostCall = NoCall
    /\ \E i \in DOMAIN resultsList : ~IsValid(sources[resultsList[i]])

\* C15: no properties or filters request is ever made on a SourceItem of a
\* generation that Clear has discarded.
C15_NoUseOfDiscarded == ~danglingUse

\* a Refresh or Cleanup ran while the context menu was open, and the operator
\* then picked one of its actions
C15_Witness ==
    /\ lastOp \in {"menu.OpenProperties", "menu.OpenFilters"}
    /\ danglingUse

\* the operations that run on the UI thread and rebuild or empty the index
IndexOps == {"showEvent", "OnSourcesChanged", "Cleanup"}

\* C14: a step of a signal handler (which may run on a thread of the host)
\* leaves the index, the list and the query untouched, and what it does is
\* fixed by initialized alone: it queues one start of the refresh timer or
\* does nothing; the index changes only in steps of showEvent,
\* OnSourcesChanged and Cleanup, which the UI thread runs one at a time.
C14_SingleThreadAccess ==
    /\ [][lastOp' \in SignalOps =>
             /\ UNCHANGED <<indexVars, viewVars, refreshed, paramVars, typeFilterItems,
                            refreshTimerActive>>
             /\ queuedStarts' = IF signalsConnected /\ initialized
                                THEN queuedStarts + 1 ELSE queuedStarts]_vars
    /\ [][indexVars' # indexVars => lastOp' \in IndexOps]_vars

\* a signal was handled and a start queued while the index still holds the
\* snapshot taken before the change
C14_Witness ==
    /\ lastOp \in SignalOps
    /\ initialized /\ signalsConnected
    /\ queuedStarts > 0
    /\ sources # <<>>
    /\ TupleSet(sources) # TupleSet(RefreshIndex(CurrentIndex).sources)


\* what keeps a top-level object out of the index: its kind, a missing name,
\* an internal type id, or the name of a stinger's media source
Excluded(o) ==
    \/ Kind(o) \in {"filter", "transition"}
    \/ objName[o] = sEmpty
    \/ TypeIdOf(o) \in {idAudioMonitor, idAudioLine}
    \/ StrStr(TypeIdOf(o), sWrapper)
    \/ StrStr(objName[o], sStinger)

\* the name and type rules of AddSource, its kind rule left aside
ExcludedByNameOrType(o) ==
    \/ objName[o] = sEmpty
    \/ TypeIdOf(o) \in {idAudioMonitor, idAudioLine}
    \/ StrStr(TypeIdOf(o), sWrapper)
    \/ StrStr(objName[o], sStinger)

\* the name and type rules of AddFilter
ExcludedFilter(f) ==
    \/ objName[f] = sEmpty
    \/ TypeIdOf(f) = idAudioMonitor

\* the filters the recorded objects report
FiltersReported ==
    UNION {Range(Live(filtersOf[sources[k].uuid])) : k \in TopRecords}

C17_SameChecksAsTopLevel ==
    lastOp = "Refresh" =>
        /\ \A i \in FilterRecords : ~ExcludedByNameOrType(sources[i].uuid)
        /\ \A f \in FiltersReported :
              ~ExcludedByNameOrType(f) =>
                  \E i \in FilterRecords :
                      /\ sources[i].uuid = f
                      /\ \E k \in ParentsReporting(i) :
                            sources[i].parentSourceName = GetName(sources[k])

\* C17: right after a Refresh no filter record has an empty name or the type
\* id audio_monitor; every other filter of a recorded object, one named like
\* a stinger included, has exactly one record, classified Filter, that carries
\* the name of a recorded object reporting it.
C17_FilterAdmission ==
    lastOp = "Refresh" =>
        /\ \A i \in FilterRecords : ~ExcludedFilter(sources[i].uuid)
        /\ \A f \in FiltersReported :
              ~ExcludedFilter(f) =>
                  /\ f \in DOMAIN sourcesByUUID
                  /\ IsFilter(sources[sourcesByUUID[f]])
                  /\ sources[sourcesByUUID[f]].uuid = f
                  /\ \E k \in ParentsReporting(sourcesByUUID[f]) :
                        sources[sourcesByUUID[f]].parentSourceName
                            = GetName(sources[k])

\* the camera reports an audio monitor filter and a filter named like a
\* stinger: the first has no record, the second has one, under the camera
C17_Witness ==
    /\ lastOp = "Refresh"
    /\ objName["u-blur"] = sStinger
    /\ filtersOf["u-cam"] = <<"u-fmon", "u-blur">>
    /\ "u-fmon" \notin DOMAIN sourcesByUUID
    /\ \E i \in FilterRecords :
          /\ sources[i].uuid = "u-blur"
          /\ sources[i].parentSourceName = sCam


\* the recorded scenes that hold the object of record i as an item
ScenesHolding(i) ==
    {k \in DOMAIN sources :
        /\ IsScene(sources[k])
        /\ IsValid(sources[k])
        /\ sources[i].uuid \in sceneItems[sources[k].uuid] \cap Alive}

\* C18 as stated: parentScenes is empty for every record classified Scene,
\* Group or Filter; only plain sources have a non-empty parentScenes.
C18_OnlyPlainHaveParents ==
    \A i \in DOMAIN sources :
        sources[i].sourceClass # "Source" => sources[i].parentScenes = {}

\* C18: parentScenes is empty for every Filter record; right after a Refresh
\* a Group or Scene record that is an item of a recorded scene carries that
\* scene's name, as the record of a plain source does.
C18_ParentsByPlacement ==
    /\ \A i \in FilterRecords : sources[i].parentScenes = {}
    /\ lastOp = "Refresh" =>
          \A i \in DOMAIN sources :
              IsGroup(sources[i]) \/ IsScene(sources[i]) =>
                  {GetName(sources[k]) : k \in ScenesHolding(i)}
                      \subseteq sources[i].parentScenes

\* a Refresh over a group placed in the first scene and the first scene
\* nested in the second one, a filter on the first scene: the group and the
\* nested scene carry their scene, the filter and the outer scene nothing
C18_Witness ==
    /\ lastOp = "Refresh"
    /\ "u-grp" \in sceneItems["u-main"]
    /\ "u-main" \in sceneItems["u-vert"]
    /\ \E i, j, k, m \in DOMAIN sources :
          /\ sources[i].uuid = "u-grp" /\ sources[i].parentScenes = {sMain}
          /\ sources[j].uuid = "u-main" /\ sources[j].parentScenes = {sVert}
          /\ sources[k].uuid = "u-vert" /\ sources[k].parentScenes = {}
          /\ sources[m].uuid = "u-blur" /\ sources[m].parentScenes = {}


\* the recorded scenes and groups that hold the object of record i as an item
ContainersHolding(i) ==
    {k \in DOMAIN sources :
        /\ IsScene(sources[k]) \/ IsGroup(sources[k])
        /\ IsValid(sources[k])
        /\ sources[i].uuid \in sceneItems[sources[k].uuid] \cap Alive}

\* C19: right after a Refresh the parentScenes of every record is exactly the
\* set of names of the Scene and Group records whose items hold the record's
\* object.
C19_ParentsAreContainers ==
    lastOp = "Refresh" =>
        \A i \in DOMAIN sources :
            sources[i].parentScenes
                = {GetName(sources[k]) : k \in ContainersHolding(i)}

\* what the linking pass does establish: the same with Scene records alone
C19_ParentsAreScenes ==
    lastOp = "Refresh" =>
        \A i \in DOMAIN sources :
            sources[i].parentScenes
                = {GetName(sources[k]) : k \in ScenesHolding(i)}

\* a Refresh over a camera that is an item of both scenes and of the group,
\* next to an item that has no record: the camera's record names both scenes
\* and not the group
C19_Witness ==
    /\ lastOp = "Refresh"
    /\ sceneItems["u-main"] = {"u-cam", "u-mon"}
    /\ "u-cam" \in sceneItems["u-vert"]
    /\ "u-cam" \in sceneItems["u-grp"]
    /\ "u-grp" \in DOMAIN sourcesByUUID
    /\ "u-mon" \notin DOMAIN sourcesByUUID
    /\ \E i \in DOMAIN sources :
          /\ sources[i].uuid = "u-cam"
          /\ sources[i].parentScenes = {sMain, sVert}


\* the index after each pass of a Refresh over the current host state
AfterEnumAllSources == EnumAllSources(Clear(CurrentIndex), Live(topLevel), 1)
AfterLinkFilters == LinkFilters(AfterEnumAllSources)
AfterLinkSceneItems == LinkSceneItems(AfterLinkFilters)

\* the uuids of a list of records, in order
UuidSeq(srcs) == [i \in DOMAIN srcs |-> srcs[i].uuid]

\* C20: right after a Refresh the index is the outcome of the three passes in
\* their order; every filter record stands for a filter of an object the
\* first pass recorded, so no filter of a filter and no filter of a rejected
\* object is enumerated; and every record exists, with an empty parentScenes,
\* when the linking pass starts, which adds and removes no record.
C20_OrderedPhases ==
    lastOp = "Refresh" =>
        /\ CurrentIndex = AfterLinkSceneItems
        /\ \A i \in DOMAIN AfterEnumAllSources.sources :
              ~IsFilter(AfterEnumAllSources.sources[i])
        /\ \A i \in FilterRecords :
              \E k \in DOMAIN AfterEnumAllSources.sources :
                  sources[i].uuid
                      \in Range(filtersOf[AfterEnumAllSources.sources[k].uuid])
        /\ \A i \in DOMAIN AfterLinkFilters.sources :
              AfterLinkFilters.sources[i].parentScenes = {}
        /\ UuidSeq(sources) = UuidSeq(AfterLinkFilters.sources)

\* a Refresh where a recorded filter and a rejected object both report a
\* filter of their own, which gets no record, and where the linking pass
\* names a scene on a record
C20_Witness ==
    /\ lastOp = "Refresh"
    /\ filtersOf["u-blur"] = <<"u-fx">>
    /\ filtersOf["u-mon"] = <<"u-fx">>
    /\ "u-blur" \in DOMAIN sourcesByUUID
    /\ "u-fx" \notin DOMAIN sourcesByUUID
    /\ \E i \in DOMAIN sources : sources[i].parentScenes # {}


\* the type ids of the records of the index
RecordedTypeIds == {sources[i].cachedTypeId : i \in DOMAIN sources}

C22_RefreshOnlyWhileVisible == lastOp = "OnSourcesChanged" => visible

\* C22: no Refresh runs and no record exists before the dock was shown for
\* the first time.
C22_NoRefreshBeforeFirstShow ==
    /\ refreshed => initialized
    /\ sources # <<>> => initialized
    /\ lastOp = "OnSourcesChanged" => initialized

\* the refresh timer has expired and Refresh has run while the dock, shown
\* once before, is hidden
C22_Witness ==
    /\ lastOp = "OnSourcesChanged"
    /\ initialized
    /\ ~visible
    /\ sources # <<>>


(***************************************************************************)
(* Freshness.  The dock is initialized and shown and never cleaned up; the *)
(* host changes the project once the dock is subscribed and the index is   *)
(* built.  The event loop delivers every queued call and lets every armed  *)
(* timer expire.                                                           *)
(***************************************************************************)
\* the handlers are connected and the index has been built
Subscribed == signalsConnected /\ initialized

NextLive ==
    \/ Initialize
    \/ ShowEvent
    \/ HideEvent
    \/ Subscribed /\ SourceCreated
    \/ Subscribed /\ SourceDestroyed
    \/ Subscribed /\ SourceRenamed
    \/ DeliverStart
    \/ OnSourcesChanged

\* the single-shot refreshTimer times out: it stops and its slot, which is
\* OnSourcesChanged, runs
RefreshTimerTimeout == refreshTimerActive /\ refreshTimerActive' = FALSE

SpecLive ==
    /\ InitSpec
    /\ [][NextLive]_vars
    /\ WF_vars(DeliverStart)
    /\ WF_refreshTimerActive(RefreshTimerTimeout)

\* the index is what a Refresh over the present project yields
IndexFresh == CurrentIndex = RefreshIndex(CurrentIndex)

\* C23: when the host's changes of the project come to an end, then from some
\* point on the subscribed dock's index is the one a Refresh of the final
\* project yields, no start is queued and the refresh timer is stopped.
C23_EventualFreshness ==
    <>[](lastOp \notin SignalOps) =>
        <>[](Subscribed => IndexFresh /\ ~PendingRefresh /\ ~dirty)

\* the camera, recorded when the dock was shown, has been destroyed, and the
\* Refresh of the timer's expiry has taken it and its filter out of the index
C23_Witness ==
    /\ lastOp = "OnSourcesChanged"
    /\ Subscribed
    /\ objState["u-cam"] = "gone"
    /\ DOMAIN sourcesByUUID = {"u-main", "u-grp"}
    /\ IndexFresh
    /\ ~PendingRefresh


(***************************************************************************)
(* The search debounce: the dock of SpecLive with the operator's input.    *)
(***************************************************************************)
\* the single-shot searchTimer times out: it stops and its slot, which is
\* PerformSearch, runs
SearchTimerTimeout == searchTimerActive /\ searchTimerActive' = FALSE

NextSearch ==
    \/ NextLive
    \/ OnSearchTextChanged
    \/ PerformSearch
    \/ OnSearchScopeChanged
    \/ OnTypeFilterChanged

SpecSearch ==
    /\ InitSpec
    /\ [][NextSearch]_vars
    /\ WF_vars(DeliverStart)
    /\ WF_refreshTimerActive(RefreshTimerTimeout)
    /\ WF_searchTimerActive(SearchTimerTimeout)

\* the operator's input
InputOps == {"OnSearchTextChanged", "OnSearchScopeChanged", "OnTypeFilterChanged"}

\* the lists UpdateResults can show for the recorded text, type and scope
QueryOutcomes ==
    {Displayed(sources, r, currentSearchScope) :
        r \in Search(sources, currentSearchText, currentTypeFilter)}

\* C24: an edit of the text records it and starts the search timer without
\* touching the list; only an edit starts the timer; the timer's expiry stops
\* it and shows the query for the recorded text, type and scope; a change of
\* scope or type shows the query with the recorded text at once; and when the
\* operator's input and the host's changes come to an end, then from some
\* point on the list is the query for the recorded text, type and scope over
\* the index.
C24_SearchDebounce ==
    /\ [][lastOp' = "OnSearchTextChanged" =>
             /\ currentSearchText' # currentSearchText
             /\ searchTimerActive'
             /\ UNCHANGED <<resultsList, indexVars, currentSearchScope,
                            currentTypeFilter>>]_vars
    /\ [][~searchTimerActive /\ searchTimerActive' =>
             lastOp' = "OnSearchTextChanged"]_vars
    /\ [][lastOp' = "PerformSearch" =>
             /\ searchTimerActive /\ ~searchTimerActive'
             /\ UNCHANGED <<paramVars, indexVars>>
             /\ resultsList' \in QueryOutcomes']_vars
    /\ [][lastOp' \in {"OnSearchScopeChanged", "OnTypeFilterChanged"} =>
             /\ UNCHANGED <<currentSearchText, searchTimerActive, indexVars>>
             /\ resultsList' \in QueryOutcomes']_vars
    /\ (<>[](lastOp \notin InputOps \cup SignalOps)
            => <>[](resultsList \in QueryOutcomes /\ ~searchTimerActive))

\* the search timer has expired after an edit to "cam" under the type
\* "image_source" and the scope "all": the list shows the camera
C24_Witness ==
    /\ lastOp = "PerformSearch"
    /\ ~searchTimerActive
    /\ currentSearchText = sCamLower
    /\ currentTypeFilter = idImage
    /\ currentSearchScope = sAll
    /\ resultsList # <<>>
    /\ resultsList \in QueryOutcomes


(***************************************************************************)
(* Properties of Cleanup and of the Initialize that follows it.            *)
(***************************************************************************)
\* C25: after a Cleanup that no Initialize has followed no Refresh runs and
\* sources, sourcesByUUID and discoveredTypes are empty.  The handlers are
\* disconnected by Cleanup alone, so an expiry of the refresh timer with the
\* handlers disconnected is one after such a Cleanup.
C25_CleanupQuiesces ==
    /\ lastOp = "OnSourcesChanged" => signalsConnected
    /\ ~signalsConnected /\ lastOp \in {"Cleanup", "OnSourcesChanged"}
          => sources = <<>> /\ sourcesByUUID = NoEntries /\ discoveredTypes = NoEntries

\* Cleanup has just emptied the index while the refresh timer runs
C25_Witness ==
    /\ lastOp = "Cleanup"
    /\ ~signalsConnected
    /\ refreshTimerActive \/ queuedStarts > 0
    /\ sources = <<>>
    /\ discoveredTypes = NoEntries


\* the dock of SpecLive under scene collection switches
NextSwitch ==
    \/ NextLive
    \/ Cleanup

SpecSwitch ==
    /\ InitSpec
    /\ [][NextSwitch]_vars
    /\ WF_vars(DeliverStart)
    /\ WF_refreshTimerActive(RefreshTimerTimeout)

\* C26: when the host's notifications and the Cleanups come to an end, then
\* from some point on the index of a dock that has been shown and is
\* subscribed is the one a Refresh of the project yields; so after a Cleanup
\* and the Initialize that follows it the index is rebuilt without a further
\* notification.
C26_RebuiltAfterSwitch ==
    <>[](lastOp \notin SignalOps \cup {"Cleanup"}) =>
        <>[](Subscribed => IndexFresh)

\* the dock, shown before, has been cleaned up and initialized again: nothing
\* is pending and the index is empty over a project that holds objects
C26_Witness ==
    /\ lastOp = "Initialize"
    /\ Subscribed
    /\ ~PendingRefresh
    /\ sources = <<>>
    /\ Alive # {}


(***************************************************************************)
(* The structure of the index.                                             *)
(***************************************************************************)
\* C27: in every state sourcesByUUID has exactly one entry per record of
\* sources, every entry points to a record of sources and is keyed by that
\* record's uuid; right after a Clear sources, sourcesByUUID and
\* discoveredTypes are empty.
C27_IndexStructure ==
    /\ DOMAIN sourcesByUUID = {sources[i].uuid : i \in DOMAIN sources}
    /\ Cardinality(DOMAIN sourcesByUUID) = Len(sources)
    /\ \A u \in DOMAIN sourcesByUUID :
          /\ sourcesByUUID[u] \in DOMAIN sources
          /\ sources[sourcesByUUID[u]].uuid = u
    /\ lastOp = "Clear" =>
          sources = <<>> /\ sourcesByUUID = NoEntries /\ discoveredTypes = NoEntries

\* a Refresh, after the host destroyed an object, over a report that repeats
\* an object: three records, a filter among them, and three entries
C27_Witness ==
    /\ lastOp = "Refresh"
    /\ mutations > 0
    /\ \E i, j \in DOMAIN topLevel : i # j /\ topLevel[i] = topLevel[j]
    /\ Len(sources) = 3
    /\ FilterRecords # {}
    /\ Cardinality(DOMAIN sourcesByUUID) = 3

====
